---- MODULE Spec2Model ----
(***************************************************************************)
(* A model of the Agentic-Suite repository: the MongoDB client and the    *)
(* MongoDB / SQL DatabaseExplorer implementations (TalkToDB), the stock   *)
(* analyzer's trading-day helper and the report CLI                       *)
(* (Financial_Research_Company_USStockExchange), and the sandboxed code   *)
(* executor and the caches of TalkToCSV.                                  *)
(*                                                                         *)
(* Each subsystem has its own specification over the shared variables;    *)
(* the variables of the other subsystems stay at their initial values.    *)
(***************************************************************************)
EXTENDS Integers, Sequences, FiniteSets, TLC

\* ------------------------------------------------------------------ bounds
\* Largest number of documents (rows) the collection (table) "users" holds in
\* the model, and the largest number every other one holds.
MaxDocs == 6
MinDocs == 1

\* ---------------------------------------------------------------- constants
\* mongoDBExplorer.py:67 and SQLDBExplorer.py:87: min(count, 5)
SampleLimit == 5
\* execute_query's default limit (mongoDBExplorer.py:174, DBAgent.py:130)
DefaultLimit == 100

VARIABLES
    collections,        \* MongoDB: names of the collections that exist
    docs,               \* MongoDB: collection name -> number of documents
    session,            \* MongoDBClient.session
    open_sessions,      \* pymongo: the sessions started and not yet ended
    exploration_notes,  \* MongoDBExplorer.exploration_notes
    handler_notes,      \* MongoDBFunctionHandler.exploration_notes
    tables,             \* SQL: names of the tables that exist
    rows,               \* SQL: table name -> number of rows
    sql_notes,          \* SQLDatabaseExplorer.exploration_notes
    last,               \* the last operation called and what its caller got
    now,                \* datetime.now(), as a date
    trading_day,        \* what get_latest_trading_day returned last
    cli_args,           \* the report CLI: its command line and what it runs against
    cli,                \* the report CLI: where main() is and its exit code
    code,               \* CodeExecutor: the code handed to execute_code
    executed,           \* CodeExecutor: the code handed to exec(), if any
    exec_result,        \* CodeExecutor: what execute_code returned
    csv_cache,          \* CSVProcessor.csv_cache: file_id -> DataFrame
    chunks,             \* UPLOAD_DIR/<file_id>/chunk_<n>: the chunks received
    uploads,            \* UPLOAD_DIR/<file_id>.csv: the files written
    stock_cache,        \* st.cache_data of get_stock_data: ticker -> entry
    clock,              \* seconds since the Streamlit process started
    messages,           \* MongoDBConversation.messages
    notified,           \* listener -> the responses it was called with, in order
    listeners           \* MongoDBConversation.listeners

mongoVars == <<collections, docs, session, open_sessions, exploration_notes, handler_notes>>
sqlVars == <<tables, rows, sql_notes>>
dateVars == <<now, trading_day>>
cliVars == <<cli_args, cli>>
execVars == <<code, executed, exec_result>>
cacheVars == <<csv_cache, stock_cache, clock, chunks, uploads>>
chatVars == <<messages, notified, listeners>>
vars == <<mongoVars, sqlVars, last, dateVars, cliVars, execVars, cacheVars, chatVars>>

\* What an action of one subsystem leaves alone.
notDbChat == <<dateVars, cliVars, execVars, cacheVars>>
notDb == <<notDbChat, chatVars>>
notMongo == <<sqlVars, notDb>>
notSql == <<mongoVars, notDb>>

\* ------------------------------------------------------------ small helpers
Min(a, b) == IF a <= b THEN a ELSE b

\* Optional arguments: <<>> is Python's None, <<x>> is the value x.
None == <<>>
Some(x) == <<x>>

\* The values operations hand to their callers, tagged with their Python type.
NoneVal == [type |-> "NoneType"]
IntVal(n) == [type |-> "int", n |-> n]
StrVal(what) == [type |-> "str", text |-> what]
ListVal(items) == [type |-> "list", items |-> items]
DataFrame(rs) == [type |-> "DataFrame", rows |-> rs]
ResultVal(what) == [type |-> "result", of |-> what]
IdVal(n) == [type |-> "str", id |-> n]

\* What the caller of an operation sees: the value returned or the exception
\* raised, whether a driver call failed on the way, and `seen`, what the call
\* found in the database (the names it listed, whether its target existed).
Outcome(op, args, kind, val, failed, seen) ==
    [op |-> op, args |-> args, kind |-> kind, val |-> val,
     driver_failed |-> failed, seen |-> seen]
Returned(op, args, val, failed) == Outcome(op, args, "return", val, failed, {})
Raised(op, args, exc, failed) == Outcome(op, args, "raise", StrVal(exc), failed, {})

\* ---------------------------------------------------------- MongoDB backend
CollNames == {"users", "orders"}
Capacity(c) == IF c = "users" THEN MaxDocs ELSE MinDocs

\* A document id as the caller writes it, document_id: str.  The id n >= 1 is
\* the ObjectId string of the document of rank n; every other string is no
\* ObjectId, and bson's ObjectId(document_id) raises InvalidId for it.
DocIds == 0..MaxDocs
IsObjectId(id) == id >= 1

\* The documents of a collection in _id order: the document of rank i.
DocOf(c, i) ==
    IF c = "users"
    THEN [_id |-> i, name |-> "n", status |-> IF i % 2 = 1 THEN "active" ELSE "inactive"]
    ELSE [_id |-> i, userId |-> 1, status |-> "active"]

\* Filters: a set of <<field, value>> pairs; {} is the empty filter.
EmptyFilter == {}
ActiveFilter == {<<"status", "active">>}
Filters == {EmptyFilter, ActiveFilter}

Matches(doc, filter) ==
    \A p \in filter : p[1] \in DOMAIN doc /\ doc[p[1]] = p[2]

\* Ranks of the documents of c that match, in _id order.
MatchingRanks(c, filter) == {i \in 1..docs[c] : Matches(DocOf(c, i), filter)}

RECURSIVE SortedSeq(_)
SortedSeq(S) ==
    IF S = {} THEN <<>>
    ELSE LET m == CHOOSE x \in S : \A y \in S : x <= y
         IN <<m>> \o SortedSeq(S \ {m})

\* pymongo: Collection.find(query).sort([("_id", 1)]), the whole cursor.
DriverFind(c, filter) == SortedSeq(MatchingRanks(c, filter))

\* pymongo: Cursor.limit(n), n > 0.
CursorLimit(cursor, n) == SubSeq(cursor, 1, Min(n, Len(cursor)))

\* pymongo: Collection.count_documents(query)
DriverCount(c, filter) == Cardinality(MatchingRanks(c, filter))

\* ------------------------------------------------------------ MongoDBClient
\* Every method below takes `ok`: whether the driver call it makes succeeds
\* (otherwise the driver raises a PyMongoError).

\* mongoConnect.py:231-277  find_many: [] when the driver fails.
find_many(c, query, limit, ok) ==
    LET q == IF query = None THEN EmptyFilter ELSE query[1]
    IN IF ~ok THEN <<>>
       ELSE IF limit > 0 THEN CursorLimit(DriverFind(c, q), limit)
       ELSE DriverFind(c, q)

\* count_documents without `if query is None: query = {}`: the driver rejects
\* a filter of None and the failure is answered with 0.
count_documents_no_default(c, query, ok) ==
    IF ok /\ query # None THEN DriverCount(c, query[1]) ELSE 0

\* mongoConnect.py:279-297  count_documents: 0 when the driver fails.
count_documents(c, query, ok) ==
    LET q == IF query = None THEN EmptyFilter ELSE query[1]
    IN IF ok THEN DriverCount(c, q) ELSE 0

\* mongoConnect.py:485-507  aggregate with a [{"$match": filter}] pipeline.
aggregate(c, filter, ok) == IF ok THEN DriverFind(c, filter) ELSE <<>>

\* mongoConnect.py:65-76  list_collections: logs and re-raises.
list_collections(ok) ==
    IF ok THEN [kind |-> "return", names |-> collections]
    ELSE [kind |-> "raise", names |-> {}]

ListCollections ==
    \E ok \in BOOLEAN :
        /\ last' = IF list_collections(ok).kind = "return"
                   THEN Returned("list_collections", <<>>, ListVal(collections), ~ok)
                   ELSE Raised("list_collections", <<>>, "PyMongoError", ~ok)
        /\ UNCHANGED <<mongoVars, notMongo>>

FindMany ==
    \E c \in CollNames, query \in {None} \cup {Some(f) : f \in Filters},
       limit \in {0, 1, DefaultLimit}, ok \in BOOLEAN :
        /\ last' = Returned("find_many", <<c, query, limit>>,
                            ListVal(find_many(c, query, limit, ok)), ~ok)
        /\ UNCHANGED <<mongoVars, notMongo>>

CountDocuments ==
    \E c \in CollNames, query \in {None} \cup {Some(f) : f \in Filters}, ok \in BOOLEAN :
        /\ last' = Outcome("count_documents", <<c, query>>, "return",
                            IntVal(count_documents(c, query, ok)), ~ok, docs[c])
        /\ UNCHANGED <<mongoVars, notMongo>>

\* mongoConnect.py:209-229  find_by_id: ObjectId(document_id) is inside the try,
\* whose only handler is `except PyMongoError`; bson.errors.InvalidId is none.
find_by_id(c, id, ok) ==
    IF ~IsObjectId(id) THEN [kind |-> "raise", val |-> StrVal("InvalidId")]
    ELSE IF ~ok THEN [kind |-> "return", val |-> NoneVal]
    ELSE IF id \in 1..docs[c] THEN [kind |-> "return", val |-> ResultVal(DocOf(c, id))]
    ELSE [kind |-> "return", val |-> NoneVal]

FindById ==
    \E c \in CollNames, id \in DocIds, ok \in BOOLEAN :
        /\ last' = Outcome("find_by_id", <<c, id>>, find_by_id(c, id, ok).kind,
                            find_by_id(c, id, ok).val, IsObjectId(id) /\ ~ok, {})
        /\ UNCHANGED <<mongoVars, notMongo>>

\* mongoConnect.py:331-362  update_by_id: same shape; the update touches the
\* document's fields, which the model does not track beyond DocOf.
UpdateById ==
    \E c \in CollNames, id \in DocIds, ok \in BOOLEAN :
        /\ last' = IF ~IsObjectId(id)
                   THEN Raised("update_by_id", <<c, id>>, "InvalidId", FALSE)
                   ELSE IF ~ok THEN Returned("update_by_id", <<c, id>>, NoneVal, TRUE)
                   ELSE Returned("update_by_id", <<c, id>>,
                                 ResultVal(IF id \in 1..docs[c] THEN 1 ELSE 0), FALSE)
        /\ UNCHANGED <<mongoVars, notMongo>>

\* mongoConnect.py:445-463  delete_by_id.  Documents are kept as a count, so a
\* delete that matches leaves one document less.
DeleteById ==
    \E c \in CollNames, id \in DocIds, ok \in BOOLEAN :
        /\ last' = IF ~IsObjectId(id)
                   THEN Raised("delete_by_id", <<c, id>>, "InvalidId", FALSE)
                   ELSE IF ~ok THEN Returned("delete_by_id", <<c, id>>, NoneVal, TRUE)
                   ELSE Returned("delete_by_id", <<c, id>>,
                                 ResultVal(IF id \in 1..docs[c] THEN 1 ELSE 0), FALSE)
        /\ docs' = IF IsObjectId(id) /\ ok /\ id \in 1..docs[c]
                   THEN [docs EXCEPT ![c] = @ - 1] ELSE docs
        /\ UNCHANGED <<collections, session, open_sessions, exploration_notes, handler_notes, notMongo>>

\* mongoConnect.py:131-155  insert_one: the id of the new document, or None.
\* MongoDB creates the collection on the first insert.
InsertOne ==
    \E c \in CollNames, ok \in BOOLEAN :
        /\ docs[c] < Capacity(c)
        /\ last' = IF ok THEN Returned("insert_one", <<c>>, IdVal(docs[c] + 1), FALSE)
                   ELSE Returned("insert_one", <<c>>, NoneVal, TRUE)
        /\ docs' = IF ok THEN [docs EXCEPT ![c] = @ + 1] ELSE docs
        /\ collections' = IF ok THEN collections \cup {c} ELSE collections
        /\ UNCHANGED <<session, open_sessions, exploration_notes, handler_notes, notMongo>>

\* mongoConnect.py:90-110  create_collection
CreateCollection ==
    \E c \in CollNames, ok \in BOOLEAN :
        /\ last' = Returned("create_collection", <<c>>,
                            ResultVal(ok /\ c \notin collections), ~ok)
        /\ collections' = IF ok THEN collections \cup {c} ELSE collections
        /\ UNCHANGED <<docs, session, open_sessions, exploration_notes, handler_notes, notMongo>>

\* mongoConnect.py:112-128  drop_collection
DropCollection ==
    \E c \in CollNames, ok \in BOOLEAN :
        /\ last' = Returned("drop_collection", <<c>>, ResultVal(ok), ~ok)
        /\ collections' = IF ok THEN collections \ {c} ELSE collections
        /\ docs' = IF ok THEN [docs EXCEPT ![c] = 0] ELSE docs
        /\ UNCHANGED <<session, open_sessions, exploration_notes, handler_notes, notMongo>>

\* The sessions a client may hold un-ended before start_transaction is
\* refused; the client's code holds one at most.
MaxSessions == 1

\* A session is [in_transaction, ended, snapshot]: snapshot is the database as
\* the transaction found it when it started.  session is None when the client
\* holds none.
NewSession(in_transaction) ==
    [in_transaction |-> in_transaction, ended |-> FALSE, snapshot |-> docs]

\* pymongo: ClientSession.end_session(); ending an ended session does nothing.
end_session(s) == [s EXCEPT !.ended = TRUE, !.in_transaction = FALSE]
Unended(s) == IF s # None /\ ~s[1].ended THEN 1 ELSE 0

\* start_transaction without `if self.session: self.session.end_session()`
start_transaction_keeps_old(outcome) ==
    IF outcome = "start_session_fails"
    THEN [kind |-> "raise", session |-> session, open |-> open_sessions]
    ELSE [kind |-> IF outcome = "ok" THEN "return" ELSE "raise",
          session |-> Some(NewSession(outcome = "ok")),
          open |-> open_sessions + 1]

\* mongoConnect.py:642-655  start_transaction: ends the session it holds, opens
\* a new one and starts a transaction on it; logs and re-raises a PyMongoError.
start_transaction(outcome) ==
    IF outcome = "start_session_fails"
    THEN [kind |-> "raise",
          session |-> IF session = None THEN None ELSE Some(end_session(session[1])),
          open |-> open_sessions - Unended(session)]
    ELSE IF outcome = "start_transaction_fails"
    THEN [kind |-> "raise", session |-> Some(NewSession(FALSE)),
          open |-> open_sessions - Unended(session) + 1]
    ELSE [kind |-> "return", session |-> Some(NewSession(TRUE)),
          open |-> open_sessions - Unended(session) + 1]

StartTransaction ==
    \E outcome \in {"ok", "start_session_fails", "start_transaction_fails"} :
        /\ open_sessions <= MaxSessions
        /\ last' = Outcome("start_transaction", <<>>, start_transaction(outcome).kind,
                           IF start_transaction(outcome).kind = "return" THEN NoneVal
                           ELSE StrVal("PyMongoError"),
                           start_transaction(outcome).kind = "raise",
                           IF session = None THEN {} ELSE {session[1]})
        /\ session' = start_transaction(outcome).session
        /\ open_sessions' = start_transaction(outcome).open
        /\ UNCHANGED <<collections, docs, exploration_notes, handler_notes, notMongo>>

\* mongoConnect.py:657-671  commit_transaction; `ok` says whether the driver's
\* commit succeeds.  The finally block ends the session and forgets it on
\* both paths.  Every write of the client was made without session=, so the
\* transaction holds no write and the commit changes no document.
commit_transaction(ok) ==
    [kind |-> IF session # None /\ session[1].in_transaction /\ ~ok THEN "raise" ELSE "return",
     session |-> None,
     open |-> open_sessions - Unended(session)]

CommitTransaction ==
    \E ok \in BOOLEAN :
        /\ last' = Outcome("commit_transaction", <<>>, commit_transaction(ok).kind,
                           IF commit_transaction(ok).kind = "return" THEN NoneVal
                           ELSE StrVal("PyMongoError"),
                           commit_transaction(ok).kind = "raise",
                           IF session = None THEN {} ELSE {session[1]})
        /\ session' = commit_transaction(ok).session
        /\ open_sessions' = commit_transaction(ok).open
        /\ UNCHANGED <<collections, docs, exploration_notes, handler_notes, notMongo>>

\* mongoConnect.py:673-687  abort_transaction.  pymongo's abort ignores the
\* server's errors, so the call returns; the transaction holds no write, so
\* the abort changes no document.
abort_transaction ==
    [kind |-> "return", session |-> None, open |-> open_sessions - Unended(session)]

AbortTransaction ==
    /\ last' = Outcome("abort_transaction", <<>>, abort_transaction.kind, NoneVal, FALSE,
                       IF session = None THEN {} ELSE {session[1]})
    /\ session' = abort_transaction.session
    /\ open_sessions' = abort_transaction.open
    /\ UNCHANGED <<collections, docs, exploration_notes, handler_notes, notMongo>>

\* mongoConnect.py:820-837  close: aborts the open transaction and ends the
\* session; self.session keeps referring to the ended session.
close ==
    [kind |-> "return",
     session |-> IF session = None THEN None ELSE Some(end_session(session[1])),
     open |-> open_sessions - Unended(session)]

Close ==
    /\ last' = Outcome("close", <<>>, close.kind, NoneVal, FALSE,
                       IF session = None THEN {} ELSE {session[1]})
    /\ session' = close.session
    /\ open_sessions' = close.open
    /\ UNCHANGED <<collections, docs, exploration_notes, handler_notes, notMongo>>

TransactionOps == {"start_transaction", "commit_transaction", "abort_transaction", "close"}

ClientOps == {"list_collections", "find_many", "count_documents", "find_by_id",
              "update_by_id", "delete_by_id", "insert_one", "create_collection",
              "drop_collection", "start_transaction"}

\* ---------------------------------------------------------- MongoDBExplorer
\* exploration_notes is {} until the first exploration (explored = FALSE).
EmptyNotes == [explored |-> FALSE, collections |-> [c \in {} |-> 0]]

DriverCalls == {"count", "find"}

\* mongoDBExplorer.py:53-86  _explore_collection; `failing` are the driver calls
\* that fail while this collection is explored.  The stats and the indexes are
\* read through calls that never raise and are left out of the snapshot.
_explore_collection(c, failing) ==
    LET count == count_documents(c, None, "count" \notin failing)
        sample_size == Min(count, SampleLimit)
        sample_docs == find_many(c, None, sample_size, "find" \notin failing)
    IN [count |-> count, sample_documents |-> sample_docs]

\* mongoDBExplorer.py:25-51  explore_database: the snapshot is stored only at
\* the end, so a call that raises leaves exploration_notes as it was.
explore_database(listOk, failing) ==
    IF list_collections(listOk).kind = "raise"
    THEN [kind |-> "raise", notes |-> exploration_notes, found |-> {}]
    ELSE LET exploration_results ==
                 [explored |-> TRUE,
                  collections |-> [c \in list_collections(listOk).names |->
                                       _explore_collection(c, failing[c])]]
         IN [kind |-> "return", notes |-> exploration_results,
             found |-> list_collections(listOk).names]

ExploreFailed(listOk, failing) ==
    ~listOk \/ \E c \in collections : failing[c] # {}

ExploreDatabase ==
    \E listOk \in BOOLEAN, failing \in [CollNames -> SUBSET DriverCalls] :
        LET r == explore_database(listOk, failing)
        IN /\ exploration_notes' = r.notes
           /\ last' = Outcome("explore_database", <<>>, r.kind,
                               IF r.kind = "return"
                               THEN [type |-> "dict", notes |-> r.notes]
                               ELSE StrVal("PyMongoError"),
                               ExploreFailed(listOk, failing), r.found)
           /\ UNCHANGED <<collections, docs, session, open_sessions, handler_notes, notMongo>>

\* mongoDBExplorer.py:159-193  execute_query.  query_params is a dict whose keys
\* "query" and "limit" may be missing (None here).
QueryParams == [query : {None} \cup {Some(f) : f \in Filters},
                limit : {None, Some(1)}]

execute_query(c, query_params, ok) ==
    LET query == IF query_params.query = None THEN EmptyFilter ELSE query_params.query[1]
        limit == IF query_params.limit = None THEN DefaultLimit ELSE query_params.limit[1]
        results == find_many(c, Some(query), limit, ok)
    IN DataFrame(results)

ExecuteQuery ==
    \E c \in CollNames, query_params \in QueryParams, ok \in BOOLEAN :
        /\ last' = Outcome("mongo.execute_query", <<c, query_params>>, "return",
                            execute_query(c, query_params, ok), ~ok,
                            collections \cap {c})
        /\ UNCHANGED <<mongoVars, notMongo>>

\* mongoDBExplorer.py:195-214  execute_aggregation
execute_aggregation(c, pipeline, ok) == DataFrame(aggregate(c, pipeline, ok))

ExecuteAggregation ==
    \E c \in CollNames, pipeline \in Filters, ok \in BOOLEAN :
        /\ last' = Returned("mongo.execute_aggregation", <<c, pipeline>>,
                            execute_aggregation(c, pipeline, ok), ~ok)
        /\ UNCHANGED <<mongoVars, notMongo>>

\* mongoDBExplorer.py:216-268  generate_notes: the text lists each collection
\* of the snapshot with its document count; it reads no data from the driver.
NotesText(notes) ==
    [type |-> "str", text |-> "notes",
     counts |-> [c \in DOMAIN notes.collections |-> notes.collections[c].count]]

generate_notes(notes) ==
    IF ~notes.explored
    THEN StrVal("Database has not been explored yet. Call explore_database() first.")
    ELSE NotesText(notes)

GenerateNotes ==
    /\ last' = Returned("mongo.generate_notes", <<>>, generate_notes(exploration_notes), FALSE)
    /\ UNCHANGED <<mongoVars, notMongo>>

MongoExplorerOps == {"explore_database", "mongo.execute_query",
                     "mongo.execute_aggregation", "mongo.generate_notes"}

\* ------------------------------------------- DBAgent.MongoDBFunctionHandler
\* The query argument of the agent-level functions: None, a dict, or a string
\* that json.loads parses to a dict or rejects.
HandlerQueries ==
    {[form |-> "none", filter |-> EmptyFilter], [form |-> "badjson", filter |-> EmptyFilter]}
    \cup {[form |-> fm, filter |-> f] : fm \in {"dict", "json"}, f \in Filters}

\* DBAgent.py:130-176  _execute_query: every exception becomes an error string.
_execute_query(c, query, listOk, ok) ==
    IF list_collections(listOk).kind = "raise"
    THEN StrVal("Error executing MongoDB query")
    ELSE IF c \notin list_collections(listOk).names
    THEN StrVal("Error: Collection does not exist.")
    ELSE IF query.form = "badjson"
    THEN StrVal("Error: Invalid query JSON format.")
    ELSE LET query_params == [query |-> Some(query.filter), limit |-> Some(DefaultLimit)]
             df == execute_query(c, query_params, ok)
         IN IF df.rows = <<>> THEN StrVal("Query returned no results.")
            ELSE [type |-> "str", text |-> "Query returned documents.", n |-> Len(df.rows)]

HandlerExecuteQuery ==
    \E c \in CollNames, query \in HandlerQueries, listOk \in BOOLEAN, ok \in BOOLEAN :
        /\ last' = Outcome("handler.execute_query", <<c, query>>, "return",
                            _execute_query(c, query, listOk, ok),
                            ~listOk \/ (c \in collections /\ query.form # "badjson" /\ ~ok),
                            collections \cap {c})
        /\ UNCHANGED <<mongoVars, notMongo>>

\* DBAgent.py:92-114  _explore_mongodb: explores, keeps generate_notes() and
\* answers with a summary; an exception becomes an error string.
HandlerExploreMongodb ==
    \E listOk \in BOOLEAN, failing \in [CollNames -> SUBSET DriverCalls] :
        LET r == explore_database(listOk, failing)
        IN /\ exploration_notes' = r.notes
           /\ handler_notes' = IF r.kind = "return"
                               THEN Some(generate_notes(r.notes)) ELSE handler_notes
           /\ last' = Outcome("handler.explore_mongodb", <<>>, "return",
                               IF r.kind = "return"
                               THEN [type |-> "str", text |-> "MongoDB exploration completed.",
                                     counts |-> NotesText(r.notes).counts]
                               ELSE StrVal("Error exploring MongoDB database"),
                               ExploreFailed(listOk, failing), r.found)
           /\ UNCHANGED <<collections, docs, session, open_sessions, notMongo>>

\* DBAgent.py:116-128  _get_exploration_notes
_get_exploration_notes ==
    IF handler_notes = None
    THEN StrVal("MongoDB database has not been explored yet. Call explore_mongodb() first.")
    ELSE handler_notes[1]

HandlerGetExplorationNotes ==
    /\ last' = Returned("handler.get_exploration_notes", <<>>, _get_exploration_notes, FALSE)
    /\ UNCHANGED <<mongoVars, notMongo>>

\* ------------------------------------------------------ SQLDatabaseExplorer
TableNames == {"users", "orders"}

\* The rows of a table with `SELECT * FROM t LIMIT n`: the first n, by rank.
SelectRows(t, n) == [i \in 1..Min(n, rows[t]) |-> i]

\* pandas' one-row frame {"error": [str(e)]} of the except branches.
ErrorFrame(e) == [type |-> "DataFrame", columns |-> {"error"}, rows |-> <<e>>]

EmptySqlNotes == [explored |-> FALSE, tables |-> [t \in {} |-> 0]]

\* SQLDBExplorer.py:65-116  _explore_table (reached only when no call fails)
_explore_table(t) ==
    LET count == rows[t]
        sample_size == IF count # 0 THEN Min(count, SampleLimit) ELSE 0
        sample_rows == IF sample_size > 0 THEN SelectRows(t, sample_size) ELSE <<>>
    IN [count |-> count, sample_rows |-> sample_rows]

\* SQLDBExplorer.py:32-63  explore_database: no call is wrapped, so a failing
\* inspector or connection raises and the stored snapshot stays as it was.
sql_explore_database(ok) ==
    IF ~ok
    THEN [kind |-> "raise", notes |-> sql_notes, found |-> {}]
    ELSE [kind |-> "return",
          notes |-> [explored |-> TRUE, tables |-> [t \in tables |-> _explore_table(t)]],
          found |-> tables]

SqlExploreDatabase ==
    \E ok \in BOOLEAN :
        LET r == sql_explore_database(ok)
        IN /\ sql_notes' = r.notes
           /\ last' = Outcome("sql.explore_database", <<>>, r.kind,
                               IF r.kind = "return"
                               THEN [type |-> "dict", found |-> r.found]
                               ELSE StrVal("SQLAlchemyError"),
                               ~ok, r.found)
           /\ UNCHANGED <<tables, rows, notSql>>

\* SQLDBExplorer.py:138-184  execute_query.  query_params["query"], when given,
\* is a complete statement (here SELECT * FROM <some table>) and table_name is
\* ignored; otherwise SELECT * FROM table_name [LIMIT n] is built.
SqlQueryParams == [query : {None} \cup {Some(t) : t \in TableNames},
                   limit : {None, Some(1)}]

\* execute_query without its try / except: the driver's exception escapes.
sql_execute_query_unguarded(table_name, query_params, ok) ==
    LET raw == query_params.query # None
        target == IF raw THEN query_params.query[1] ELSE table_name
        n == IF ~raw /\ query_params.limit # None THEN query_params.limit[1] ELSE rows[target]
    IN IF ~ok \/ target \notin tables
       THEN [kind |-> "raise", val |-> StrVal("OperationalError")]
       ELSE [kind |-> "return", val |-> DataFrame(SelectRows(target, n))]

\* The whole body is inside try / except Exception: a failing statement (the
\* driver is down, the table does not exist) becomes the error frame.
sql_execute_query(table_name, query_params, ok) ==
    LET raw == query_params.query # None
        target == IF raw THEN query_params.query[1] ELSE table_name
        n == IF ~raw /\ query_params.limit # None THEN query_params.limit[1] ELSE rows[target]
    IN IF ~ok THEN [kind |-> "return", val |-> ErrorFrame("OperationalError")]
       ELSE IF target \notin tables THEN [kind |-> "return", val |-> ErrorFrame("no such table")]
       ELSE [kind |-> "return", val |-> DataFrame(SelectRows(target, n))]

SqlExecuteQuery ==
    \E t \in TableNames, query_params \in SqlQueryParams, ok \in BOOLEAN :
        /\ last' = Outcome("sql.execute_query", <<t, query_params>>,
                            sql_execute_query(t, query_params, ok).kind,
                            sql_execute_query(t, query_params, ok).val, ~ok, tables \cap {t})
        /\ UNCHANGED <<sqlVars, notSql>>

\* SQLDBExplorer.py:186-243  execute_aggregation: a raw statement, or one built
\* from group_by and aggregations (a ValueError when group_by is missing); the
\* result has one row per group, and the rows of a table here form one group.
SqlAggregationParams == [query : {None} \cup {Some(t) : t \in TableNames},
                         group_by : BOOLEAN]

sql_execute_aggregation(table_name, aggregation_params, ok) ==
    LET raw == aggregation_params.query # None
        target == IF raw THEN aggregation_params.query[1] ELSE table_name
    IN IF ~raw /\ ~aggregation_params.group_by THEN ErrorFrame("group_by is required for aggregation")
       ELSE IF ~ok THEN ErrorFrame("OperationalError")
       ELSE IF target \notin tables THEN ErrorFrame("no such table")
       ELSE DataFrame(SelectRows(target, IF raw THEN rows[target] ELSE 1))

SqlExecuteAggregation ==
    \E t \in TableNames, aggregation_params \in SqlAggregationParams, ok \in BOOLEAN :
        /\ last' = Outcome("sql.execute_aggregation", <<t, aggregation_params>>, "return",
                            sql_execute_aggregation(t, aggregation_params, ok),
                            ~ok /\ (aggregation_params.query # None \/ aggregation_params.group_by),
                            tables \cap {t})
        /\ UNCHANGED <<sqlVars, notSql>>

\* SQLDBExplorer.py:245-317  generate_notes
sql_generate_notes(notes) ==
    IF ~notes.explored
    THEN StrVal("Database has not been explored yet. Call explore_database() first.")
    ELSE [type |-> "str", text |-> "notes",
          counts |-> [t \in DOMAIN notes.tables |-> notes.tables[t].count]]

SqlGenerateNotes ==
    /\ last' = Returned("sql.generate_notes", <<>>, sql_generate_notes(sql_notes), FALSE)
    /\ UNCHANGED <<sqlVars, notSql>>

\* Other clients of the SQL database: CREATE TABLE, INSERT, DROP TABLE.
SqlCreateTable ==
    \E t \in TableNames :
        /\ t \notin tables
        /\ tables' = tables \cup {t}
        /\ UNCHANGED <<rows, sql_notes, last, notSql>>

SqlInsertRow ==
    \E t \in tables :
        /\ rows[t] < Capacity(t)
        /\ rows' = [rows EXCEPT ![t] = @ + 1]
        /\ UNCHANGED <<tables, sql_notes, last, notSql>>

SqlDropTable ==
    \E t \in tables :
        /\ tables' = tables \ {t}
        /\ rows' = [rows EXCEPT ![t] = 0]
        /\ UNCHANGED <<sql_notes, last, notSql>>

SqlExplorerOps == {"sql.explore_database", "sql.execute_query",
                   "sql.execute_aggregation", "sql.generate_notes"}

\* ------------------------------------------ StockAnalyzer: the trading day
\* A date is its proleptic Gregorian ordinal (datetime.date.toordinal()); the
\* model's clock runs over the days FirstDay .. FirstDay + Days, which start on
\* Monday 2024-02-19 and cross the leap day.
FirstDay == 738935
Days == 21

IsLeap(y) == (y % 4 = 0 /\ y % 100 # 0) \/ y % 400 = 0
DaysInMonth(y, m) ==
    IF m = 2 THEN (IF IsLeap(y) THEN 29 ELSE 28)
    ELSE IF m \in {4, 6, 9, 11} THEN 30 ELSE 31
DaysBeforeYear(y) == (y - 1) * 365 + (y - 1) \div 4 - (y - 1) \div 100 + (y - 1) \div 400

RECURSIVE DaysBeforeMonth(_, _)
DaysBeforeMonth(y, m) ==
    IF m = 1 THEN 0 ELSE DaysBeforeMonth(y, m - 1) + DaysInMonth(y, m - 1)

\* datetime.date(y, m, d).toordinal()
ymd2ord(date) == DaysBeforeYear(date.year) + DaysBeforeMonth(date.year, date.month) + date.day

\* strftime("%Y-%m-%d"): the year, month and day fields of the text.
strftime(n) ==
    LET y == CHOOSE yy \in (n \div 366)..(n \div 365 + 1) :
                 DaysBeforeYear(yy) < n /\ n <= DaysBeforeYear(yy + 1)
        m == CHOOSE mm \in 1..12 :
                 /\ DaysBeforeMonth(y, mm) < n - DaysBeforeYear(y)
                 /\ n - DaysBeforeYear(y) <= DaysBeforeMonth(y, mm) + DaysInMonth(y, mm)
    IN [year |-> y, month |-> m, day |-> n - DaysBeforeYear(y) - DaysBeforeMonth(y, m)]

\* datetime.weekday(): Monday is 0, Sunday is 6.
weekday(n) == (n + 6) % 7

\* InfoFetch.py:219-226  get_latest_trading_day
get_latest_trading_day(today) ==
    IF weekday(today) >= 5
    THEN strftime(today - (weekday(today) - 4))
    ELSE strftime(today - 1)

GetLatestTradingDay ==
    /\ trading_day' = Some(get_latest_trading_day(now))
    /\ UNCHANGED <<now, mongoVars, sqlVars, chatVars, last, cliVars, execVars, cacheVars>>

\* A day passes.
NextDay ==
    /\ now < FirstDay + Days
    /\ now' = now + 1
    /\ UNCHANGED <<trading_day, mongoVars, sqlVars, chatVars, last, cliVars, execVars, cacheVars>>

\* ------------------------------------------------------------ the report CLI
\* A run: the command line (the ticker is a required positional argument), and
\* what the run meets: whether the -i file exists, whether load_data accepts
\* it, how the analysis ends ("ok": a dict; "none": analyze_stock caught an
\* error and returned None; "raises": StockAnalyzer() or writing the JSON file
\* raised), and whether generate_report returns.
CliRuns == [ticker : BOOLEAN, input : BOOLEAN, skip_analysis : BOOLEAN,
            input_exists : BOOLEAN, load_data : BOOLEAN,
            analysis : {"ok", "none", "raises"}, generate_report : BOOLEAN]

ExitOk == 0
ExitError == 1
ExitUsage == 2

\* cli_tool.py:12-74  main(): the exit code of the process.
main(a) ==
    IF ~a.ticker THEN ExitUsage
    ELSE IF a.skip_analysis /\ a.input
    THEN IF ~a.input_exists THEN ExitError
         ELSE IF ~a.load_data THEN ExitError
         ELSE IF a.generate_report THEN ExitOk ELSE ExitError
    ELSE IF a.analysis # "ok" THEN ExitError
         ELSE IF a.generate_report THEN ExitOk ELSE ExitError

\* Whether main() reaches the analysis (cli_tool.py:42-69).
RunsAnalysis(a) == a.ticker /\ ~(a.skip_analysis /\ a.input)

CliStart ==
    \E a \in CliRuns :
        /\ cli.pc # "running"
        /\ cli_args' = a
        /\ cli' = [pc |-> "running", exit_code |-> None]
        /\ UNCHANGED <<mongoVars, sqlVars, chatVars, last, dateVars, execVars, cacheVars>>

CliMain ==
    /\ cli.pc = "running"
    /\ cli' = [pc |-> "exited", exit_code |-> Some(main(cli_args))]
    /\ UNCHANGED <<cli_args, mongoVars, sqlVars, chatVars, last, dateVars, execVars, cacheVars>>

\* -------------------------------------------------- TalkToCSV: CodeExecutor
\* Longest generated code, in lines.
MaxLines == 3

\* A dotted module name is the sequence of its components.
\* code_executor.py:380-387  the keys of allowed_modules
allowed_modules == {<<"pandas">>, <<"pd">>, <<"numpy">>, <<"np">>,
                    <<"matplotlib", "pyplot">>, <<"plt">>}

\* One line of generated code, as ast.parse and the pattern scan see it:
\*   import <module>                      kind "import"
\*   from <module> import <names>         kind "importfrom", module given
\*   from . import <names>                kind "importfrom", module None
\*   a statement that changes df in place kind "mutate"
\*   any other statement                  kind "stmt"
\*   a line that does not parse           kind "syntaxerror"
\* `pattern` says whether the text holds one of unsafe_patterns ("open(",
\* "eval(", "os.", "subprocess", ...).
CodeLine(kind, module, names, pattern) ==
    [kind |-> kind, module |-> module, names |-> names, pattern |-> pattern]

Lines ==
    { CodeLine("import", Some(<<"pandas">>), {}, FALSE),                \* import pandas
      CodeLine("import", Some(<<"matplotlib", "pyplot">>), {}, FALSE),  \* import matplotlib.pyplot
      CodeLine("import", Some(<<"json">>), {}, FALSE),                  \* import json
      CodeLine("importfrom", Some(<<"json">>), {"loads"}, FALSE),       \* from json import loads
      CodeLine("importfrom", None, {"glob"}, FALSE),                    \* from . import glob
      CodeLine("stmt", None, {}, FALSE),                                \* result = df.describe()
      CodeLine("stmt", None, {}, TRUE),                                 \* open("/etc/passwd")
      CodeLine("mutate", None, {}, FALSE),                              \* df.drop(df.index, inplace=True)
      CodeLine("syntaxerror", None, {}, FALSE) }                        \* result = (

Codes == UNION {[1..n -> Lines] : n \in 0..MaxLines}

Parses(c) == \A i \in 1..Len(c) : c[i].kind # "syntaxerror"

\* code_executor.py:515-557  _is_code_safe
_is_code_safe(c) ==
    IF ~Parses(c) THEN FALSE
    ELSE IF \E i \in 1..Len(c) :
              \/ /\ c[i].kind = "import"
                 /\ <<Head(c[i].module[1])>> \notin allowed_modules
              \/ /\ c[i].kind = "importfrom"
                 /\ c[i].module # None
                 /\ <<Head(c[i].module[1])>> \notin allowed_modules
    THEN FALSE
    ELSE ~(\E i \in 1..Len(c) : c[i].pattern)

IsImportLine(l) == l.kind \in {"import", "importfrom"}
IsNotImportLine(l) == ~IsImportLine(l)

\* code_executor.py:487-513  _remove_imports
_remove_imports(c) == IF Parses(c) THEN SelectSeq(c, IsNotImportLine) ELSE c

\* How exec() of the code ends: without an exception ("ok"), with one
\* ("raises"), or with one while _process_result(df.head()) raises in the
\* handler as well ("head_fails").
ExecOutcomes == {"ok", "raises", "head_fails"}

\* code_executor.py:389-485  execute_code
execute_code(c, runs) ==
    IF ~_is_code_safe(c)
    THEN [executed |-> None,
          result |-> [status |-> "error", message |-> "Code contains unsafe operations",
                      result |-> "None"]]
    ELSE IF runs = "ok"
    THEN [executed |-> Some(_remove_imports(c)),
          result |-> [status |-> "success", message |-> "Code executed successfully",
                      result |-> "result"]]
    ELSE [executed |-> Some(_remove_imports(c)),
          result |-> [status |-> "error", message |-> "Error executing code",
                      result |-> IF runs = "raises" THEN "df.head()" ELSE "None"]]

ExecuteCode ==
    \E c \in Codes, runs \in ExecOutcomes :
        /\ code' = c
        /\ executed' = execute_code(c, runs).executed
        /\ exec_result' = Some(execute_code(c, runs).result)
        /\ UNCHANGED <<mongoVars, sqlVars, chatVars, last, dateVars, cliVars, cacheVars>>

\* ------------------------------------------------ the process-global caches
FileIds == {"f1", "f2"}
\* What an uploaded file holds: two CSV texts and one that read_csv rejects
\* under every encoding and delimiter it tries.
Contents == {"csvA", "csvB", "garbage"}
Tickers == {"AAPL", "MSFT"}

\* app.py:642  @st.cache_data(ttl=3600)
TTL == 3600
\* The clock moves in steps of TickSeconds, MaxTicks times.
TickSeconds == 1800
MaxTicks == 3

\* A cache that keeps only the entry stored last.
cache_store_latest_only(cache, file_id, df) == [f \in {file_id} |-> df]

\* csv_processor.py:100  self.csv_cache[file_id] = df
cache_store(cache, file_id, df) ==
    [f \in DOMAIN cache \cup {file_id} |-> IF f = file_id THEN df ELSE cache[f]]

\* csv_processor.py:73-116  process_csv: the DataFrame is cached as soon as it
\* is read; `analysed` says whether the metadata and the analysis that follow
\* are computed without an exception.
process_csv(file_id, content, analysed) ==
    IF content = "garbage"
    THEN [cache |-> csv_cache, status |-> "error"]
    ELSE [cache |-> cache_store(csv_cache, file_id, content),
          status |-> IF analysed THEN "success" ELSE "error"]

ProcessCsv ==
    \E file_id \in FileIds, content \in Contents, analysed \in BOOLEAN :
        /\ csv_cache' = process_csv(file_id, content, analysed).cache
        /\ last' = Returned("process_csv", <<file_id, content>>,
                            [type |-> "dict",
                             status |-> process_csv(file_id, content, analysed).status],
                            FALSE)
        /\ UNCHANGED <<stock_cache, clock, chunks, uploads, mongoVars, sqlVars, chatVars, dateVars, cliVars, execVars>>

\* csv_processor.py:439-448  get_dataframe
get_dataframe(file_id) ==
    IF file_id \in DOMAIN csv_cache THEN DataFrame(csv_cache[file_id]) ELSE NoneVal

GetDataframe ==
    \E file_id \in FileIds :
        /\ last' = Returned("get_dataframe", <<file_id>>, get_dataframe(file_id), FALSE)
        /\ UNCHANGED <<cacheVars, mongoVars, sqlVars, chatVars, dateVars, cliVars, execVars>>

\* Streamlit's cache_data with a ttl: an entry answers calls made less than ttl
\* seconds after it was stored.
cache_hit(ticker) ==
    ticker \in DOMAIN stock_cache /\ clock < stock_cache[ticker].stored_at + TTL

\* app.py:642-663  get_stock_data: on a hit the body does not run; otherwise
\* the body's return value (the analysis, or None when it failed) is stored.
get_stock_data(ticker, analysis) ==
    IF cache_hit(ticker) THEN stock_cache
    ELSE [t \in DOMAIN stock_cache \cup {ticker} |->
              IF t = ticker THEN [value |-> analysis, stored_at |-> clock]
              ELSE stock_cache[t]]

GetStockData ==
    \E ticker \in Tickers, analysis \in {"analysis", "None"} :
        /\ stock_cache' = get_stock_data(ticker, analysis)
        /\ last' = Returned("get_stock_data", <<ticker>>,
                            [type |-> "analysis",
                             value |-> get_stock_data(ticker, analysis)[ticker].value,
                             fetched_at |-> get_stock_data(ticker, analysis)[ticker].stored_at],
                            FALSE)
        /\ UNCHANGED <<csv_cache, clock, chunks, uploads, mongoVars, sqlVars, chatVars, dateVars, cliVars, execVars>>

Tick ==
    /\ clock < MaxTicks * TickSeconds
    /\ clock' = clock + TickSeconds
    /\ UNCHANGED <<csv_cache, stock_cache, chunks, uploads, last, mongoVars, sqlVars, chatVars, dateVars, cliVars, execVars>>
\* --------------------------------------------- TalkToCSV: the HTTP endpoints
\* The chunks the frontend cuts a file into (frontend/app.py:679-731): their
\* concatenation in index order is the file.
Pieces ==
    [csvA |-> <<"csv", "A">>,
     garbage |-> <<"garb", "age">>]

LastChunk(content) == Len(Pieces[content]) - 1

\* raise HTTPException(status_code=...)
HTTPException(status_code) == [kind |-> "raise", status_code |-> status_code]
Return(body) == [kind |-> "return", body |-> body]

\* except Exception as e: raise HTTPException(status_code=500, ...) around an
\* endpoint's body; an HTTPException raised by the body is an Exception too.
except_exception(outcome) ==
    IF outcome.kind = "raise" THEN HTTPException(500) ELSE outcome

\* FastAPI: what the client receives.
Response(outcome) ==
    IF outcome.kind = "raise"
    THEN [type |-> "response", status_code |-> outcome.status_code, body |-> [status |-> "error"]]
    ELSE [type |-> "response", status_code |-> 200, body |-> outcome.body]

\* csv_processor.py:53-59  the chunk files chunk_0 .. chunk_<n> that exist,
\* written to the output file in index order.
RECURSIVE reassemble(_, _)
reassemble(dir, n) ==
    IF n < 0 THEN ""
    ELSE reassemble(dir, n - 1) \o (IF n \in DOMAIN dir THEN dir[n] ELSE "")

save_chunk(dir, chunk_number, data) ==
    [n \in DOMAIN dir \cup {chunk_number} |-> IF n = chunk_number THEN data ELSE dir[n]]

\* csv_processor.py:30-71  process_chunk: the directory, the file written and
\* the cache after the call, and the dict returned.
process_chunk(file_id, chunk_number, data, is_last, analysed) ==
    LET dir == save_chunk(chunks[file_id], chunk_number, data)
        file == reassemble(dir, chunk_number)
    IN IF is_last
       THEN [chunks |-> [chunks EXCEPT ![file_id] = <<>>],
             uploads |-> [uploads EXCEPT ![file_id] = Some(file)],
             cache |-> process_csv(file_id, file, analysed).cache,
             result |-> [status |-> process_csv(file_id, file, analysed).status],
             present |-> DOMAIN dir]
       ELSE [chunks |-> [chunks EXCEPT ![file_id] = dir],
             uploads |-> uploads,
             cache |-> csv_cache,
             result |-> [status |-> "success"],
             present |-> DOMAIN dir]

\* uuid.uuid4(): an id no upload has used.
FreshIds ==
    {f \in FileIds : f \notin DOMAIN csv_cache /\ chunks[f] = <<>> /\ uploads[f] = None}

\* main.py:359-385  POST /upload/chunk; the request names its file_id or, for
\* the first chunk, leaves it out.
UploadChunk ==
    \E content \in DOMAIN Pieces, chunk_number \in 0..1, analysed \in BOOLEAN,
       given \in {None} \cup {Some(f) : f \in FileIds} :
        \E file_id \in (IF given = None THEN FreshIds ELSE {given[1]}) :
            LET is_last == chunk_number = LastChunk(content)
                r == process_chunk(file_id, chunk_number,
                                   Pieces[content][chunk_number + 1], is_last, analysed)
            IN /\ chunk_number <= LastChunk(content)
               /\ chunks' = r.chunks
               /\ uploads' = r.uploads
               /\ csv_cache' = r.cache
               /\ last' = Outcome("upload_chunk", <<file_id, chunk_number, is_last>>, "return",
                                   Response(Return(r.result)), FALSE, r.present)
               /\ UNCHANGED <<stock_cache, clock, mongoVars, sqlVars, chatVars, dateVars, cliVars, execVars>>

\* main.py:387-411  POST /upload/file
UploadFile ==
    \E content \in Contents, analysed \in BOOLEAN, file_id \in FreshIds :
        /\ uploads' = [uploads EXCEPT ![file_id] = Some(content)]
        /\ csv_cache' = process_csv(file_id, content, analysed).cache
        /\ last' = Outcome("upload_file", <<file_id>>, "return",
                           Response(Return([status |-> process_csv(file_id, content, analysed).status])),
                           FALSE, {})
        /\ UNCHANGED <<chunks, stock_cache, clock, mongoVars, sqlVars, chatVars, dateVars, cliVars, execVars>>

\* csv_processor.py:450-471  get_dataframe_info; the dict has a "status" key
\* only when the file is not cached.
get_dataframe_info(file_id) ==
    IF get_dataframe(file_id) = NoneVal
    THEN [status |-> Some("error"), message |-> "File not found in cache"]
    ELSE [status |-> None, message |-> "columns, dtypes, shape, sample"]

\* csv_processor.py:138-162  generate_analysis; `analysed` says whether the
\* statistics are computed without an exception.
generate_analysis(file_id, analysed) ==
    IF file_id \notin DOMAIN csv_cache
    THEN [status |-> Some("error"), message |-> "File not found in cache"]
    ELSE IF analysed THEN [status |-> None, message |-> "summary_stats, data_quality"]
    ELSE [status |-> Some("error"), message |-> "Error generating analysis"]

\* main.py:413-426  GET /files/{file_id}
get_file_info(file_id) ==
    except_exception(IF get_dataframe_info(file_id).status = Some("error")
                     THEN HTTPException(404)
                     ELSE Return(get_dataframe_info(file_id)))

GetFileInfo ==
    \E file_id \in FileIds :
        /\ last' = Outcome("get_file_info", <<file_id>>, "return",
                           Response(get_file_info(file_id)), FALSE, DOMAIN csv_cache)
        /\ UNCHANGED <<cacheVars, mongoVars, sqlVars, chatVars, dateVars, cliVars, execVars>>

\* main.py:428-441  GET /files/{file_id}/analysis
get_file_analysis(file_id, analysed) ==
    except_exception(IF generate_analysis(file_id, analysed).status = Some("error")
                     THEN HTTPException(404)
                     ELSE Return(generate_analysis(file_id, analysed)))

GetFileAnalysis ==
    \E file_id \in FileIds, analysed \in BOOLEAN :
        /\ last' = Outcome("get_file_analysis", <<file_id>>, "return",
                           Response(get_file_analysis(file_id, analysed)), FALSE, DOMAIN csv_cache)
        /\ UNCHANGED <<cacheVars, mongoVars, sqlVars, chatVars, dateVars, cliVars, execVars>>

\* The code the LLM generates for a query: empty, or one line of any kind.
QueryCodes == {<<>>} \cup {<<l>> : l \in Lines}

\* main.py:473-476  the fallback snippet: its lines are indented inside the
\* string literal, so ast.parse raises IndentationError, a SyntaxError.
simple_code == <<CodeLine("syntaxerror", None, {}, FALSE)>>

\* The object exec() runs on, were the cached DataFrame handed over as it is.
df_same_object(df) == [data |-> df, object |-> "cached"]

\* code_executor.py:429  'df': df.copy(), a new object with the same data
df_copy(df) == [data |-> df, object |-> "copy"]

Mutates(c) == \E i \in 1..Len(c) : c[i].kind = "mutate"

\* code_executor.py:419-434  the cached DataFrame after exec() of the code: it
\* changes only if the code changed the very object the cache holds.
cached_after(df, c, runs) ==
    IF /\ execute_code(c, runs).executed # None
       /\ Mutates(execute_code(c, runs).executed[1])
       /\ df_copy(df).object = "cached"
    THEN "mutated"
    ELSE df

\* main.py:443-530  POST /query; `generated` is the code the LLM produced, or
\* None when generate_pandas_code answered with status "error".
query_csv(file_id, generated, runs) ==
    IF get_dataframe(file_id) = NoneVal
    THEN [response |-> except_exception(HTTPException(404)),
          code |-> code, execution |-> None, cache |-> csv_cache]
    ELSE LET generated_code == IF generated = None THEN simple_code ELSE generated[1]
             execution_result == execute_code(generated_code, runs)
         IN [response |-> except_exception(Return([status |-> execution_result.result.status,
                                                   result |-> execution_result.result.result])),
             code |-> generated_code,
             execution |-> Some(execution_result),
             cache |-> [csv_cache EXCEPT ![file_id] =
                            cached_after(csv_cache[file_id], generated_code, runs)]]

QueryCsv ==
    \E file_id \in FileIds, runs \in ExecOutcomes,
       generated \in {None} \cup {Some(c) : c \in QueryCodes} :
        LET r == query_csv(file_id, generated, runs)
        IN /\ csv_cache' = r.cache
           /\ code' = r.code
           /\ executed' = IF r.execution = None THEN executed ELSE r.execution[1].executed
           /\ exec_result' = IF r.execution = None THEN exec_result
                             ELSE Some(r.execution[1].result)
           /\ last' = Outcome("query_csv", <<file_id, generated>>, "return",
                               Response(r.response), FALSE, DOMAIN csv_cache)
           /\ UNCHANGED <<stock_cache, clock, chunks, uploads, mongoVars, sqlVars, chatVars, dateVars, cliVars>>

\* ------------------------------- schema inference and relationship inference
\* Most documents or rows in one sample.
MaxSample == 2

\* The identifiers used as field, collection, table and column names, spelled
\* out so that the string operations of the code are computed on them.
Chars ==
    [_id |-> <<"_", "i", "d">>,
     userId |-> <<"u", "s", "e", "r", "I", "d">>,
     orders |-> <<"o", "r", "d", "e", "r", "s">>,
     users |-> <<"u", "s", "e", "r", "s">>,
     name |-> <<"n", "a", "m", "e">>]

Identifiers == DOMAIN Chars

\* str.endswith
endswith(s, suffix) ==
    /\ Len(Chars[s]) >= Len(Chars[suffix])
    /\ SubSeq(Chars[s], Len(Chars[s]) - Len(Chars[suffix]) + 1, Len(Chars[s])) = Chars[suffix]

\* field.endswith("Id")
EndsWithId(field) ==
    /\ Len(Chars[field]) >= 2
    /\ SubSeq(Chars[field], Len(Chars[field]) - 1, Len(Chars[field])) = <<"I", "d">>

\* field[:-2] + "s", as characters
potential_collection(field) ==
    SubSeq(Chars[field], 1, Len(Chars[field]) - 2) \o <<"s">>

\* The fields a sampled document may hold, with the Python types of the values
\* seen in them; every document holds _id.
FieldTypes ==
    [_id |-> {"ObjectId"}, userId |-> {"str", "int"},
     orders |-> {"list", "str"}, name |-> {"str"}]

SampleDocs ==
    UNION {[F \cup {"_id"} -> {"ObjectId", "str", "int", "list"}] :
               F \in SUBSET {"userId", "orders", "name"}}

Documents == {d \in SampleDocs : \A f \in DOMAIN d : d[f] \in FieldTypes[f]}

Samples == UNION {[1..n -> Documents] : n \in 0..MaxSample}

Range(s) == {s[i] : i \in DOMAIN s}

\* all_fields[field]["types"].append(field_type), with no test before it
append_always(types, field_type) == Append(types, field_type)

\* mongoDBExplorer.py:101-103  a type is appended only if not yet in the list
append_new(types, field_type) ==
    IF field_type \in Range(types) THEN types ELSE Append(types, field_type)

\* mongoDBExplorer.py:96-108  the types list of one field after the first n
\* documents; a document is the type(value).__name__ of each of its fields.
RECURSIVE TypesSeen(_, _, _)
TypesSeen(documents, field, n) ==
    IF n = 0 THEN <<>>
    ELSE IF field \in DOMAIN documents[n]
    THEN append_new(TypesSeen(documents, field, n - 1), documents[n][field])
    ELSE TypesSeen(documents, field, n - 1)

\* mongoDBExplorer.py:88-114  _infer_schema: {} for no documents.  The "sample"
\* text of a field is left out; possible_reference is a key only when true.
_infer_schema(documents) ==
    [field \in UNION {DOMAIN documents[i] : i \in DOMAIN documents} |->
        [types |-> TypesSeen(documents, field, Len(documents)),
         possible_reference |-> EndsWithId(field) \/ field = "_id"]]

\* A call that has been made and has not returned yet.
Called(op, args) == Outcome(op, args, "call", NoneVal, FALSE, {})

InferSchema ==
    /\ last.kind = "call" /\ last.op = "_infer_schema"
    /\ last' = Returned("_infer_schema", last.args,
                        [type |-> "dict", schema |-> _infer_schema(last.args[1])], FALSE)
    /\ UNCHANGED <<mongoVars, notMongo>>

Relationship(from, field, to, confidence, type) ==
    [from_collection |-> from, from_field |-> field, to_collection |-> to,
     to_field |-> "_id", confidence |-> confidence, type |-> type]

\* _identify_relationships without `if other_collection == collection_name: continue`
_identify_relationships_with_self(collections_info) ==
    LET names == DOMAIN collections_info
    IN { Relationship(t[1], t[2], t[3], IF t[2] # "_id" THEN "high" ELSE "medium", None) :
             t \in { u \in names \X Identifiers \X names :
                       /\ u[2] \in DOMAIN collections_info[u[1]].schema
                       /\ EndsWithId(u[2]) \/ u[2] = "_id"
                       /\ potential_collection(u[2]) = Chars[u[3]] \/ u[2] = "_id" } }
       \cup
       { Relationship(t[1], t[2], t[2], "medium", Some("array")) :
             t \in { u \in names \X Identifiers :
                       /\ u[2] \in DOMAIN collections_info[u[1]].schema
                       /\ "list" \in Range(collections_info[u[1]].schema[u[2]].types)
                       /\ u[2] \in names } }

\* mongoDBExplorer.py:116-157  _identify_relationships.  The list it returns
\* holds no relationship twice and is kept as a set; `type` is None where the
\* dict has no "type" key.
_identify_relationships(collections_info) ==
    LET names == DOMAIN collections_info
    IN { Relationship(t[1], t[2], t[3], IF t[2] # "_id" THEN "high" ELSE "medium", None) :
             t \in { u \in names \X Identifiers \X names :
                       /\ u[2] \in DOMAIN collections_info[u[1]].schema
                       /\ EndsWithId(u[2]) \/ u[2] = "_id"
                       /\ u[3] # u[1]
                       /\ potential_collection(u[2]) = Chars[u[3]] \/ u[2] = "_id" } }
       \cup
       { Relationship(t[1], t[2], t[2], "medium", Some("array")) :
             t \in { u \in names \X Identifiers :
                       /\ u[2] \in DOMAIN collections_info[u[1]].schema
                       /\ "list" \in Range(collections_info[u[1]].schema[u[2]].types)
                       /\ u[2] \in names } }

\* The collections_info that explore_database hands over: for each collection
\* found, the schema inferred from its sample; here a sample of one document
\* or none.
CollectionsInfos ==
    UNION {[S -> {[schema |-> _infer_schema(sample)] :
                      sample \in {s \in Samples : Len(s) <= 1}}] :
               S \in SUBSET CollNames}

IdentifyRelationships ==
    /\ last.kind = "call" /\ last.op = "_identify_relationships"
    /\ last' = Returned("_identify_relationships", last.args,
                        [type |-> "list",
                         items |-> _identify_relationships(last.args[1])], FALSE)
    /\ UNCHANGED <<mongoVars, notMongo>>

\* SQLDBExplorer.py:70  inspector.get_columns: the declared type of a column.
ColumnNames == {"userId", "name"}
DeclaredTypes == {"INTEGER", "TEXT"}
\* The storage class of a value a row holds in a column (SQLite is dynamically
\* typed: it need not be the declared one).
StorageClasses == {"INTEGER", "TEXT", "NULL"}

SqlTables ==
    UNION {[columns : [C -> DeclaredTypes],
            sample_rows : UNION {[1..n -> [C -> StorageClasses]] : n \in 0..MaxSample}] :
               C \in (SUBSET ColumnNames) \ {{}}}

\* SQLDBExplorer.py:100-107  the schema part of _explore_table: one entry per
\* inspected column, its "type" the declared type.
table_schema(columns) == [column \in DOMAIN columns |-> [type |-> columns[column]]]

SqlTableSchema ==
    /\ last.kind = "call" /\ last.op = "sql._explore_table"
    /\ last' = Returned("sql._explore_table", last.args,
                        [type |-> "dict", schema |-> table_schema(last.args[1].columns)], FALSE)
    /\ UNCHANGED <<sqlVars, notSql>>
\* ------------------------------------------ DBAgent.py: MongoDBConversation
\* The lines of a python code block that an agent's reply may hold, and the
\* messages a conversation may hold before it is cut off.
MaxBlockLines == 2
MinBlockLines == 1
MaxListeners == 2
MaxMessages == 6

NoneExecuted == "# No MongoDB functions were executed"
CouldNotParse == "# Warning: Could not parse"
ResultOf == "# Result of"

\* A line of a code block, as _execute_code_block tells them apart: an empty
\* line or a comment, a line that is no function call, a function call, and a
\* function call with a keyword argument named function_name or self.
LineKinds == {"comment", "unparsable", "call", "call_function_name"}
BlockLines(most) == UNION {[1..n -> LineKinds] : n \in 0..most}

\* A reply of an agent: whether it has a ```python fence, how the fence is
\* written, and whether its own text has one of the two marker texts in it.
\* "exact" is ```python\n<code>\n```; "padded" has other white space around
\* the code; "unclosed" has no closing fence.
Blocks(most) ==
    {[fence |-> f, lines |-> ls] : f \in {"exact", "padded"}, ls \in BlockLines(most)}
        \cup {[fence |-> "unclosed", lines |-> <<>>]}
RepliesOf(most) ==
    [block : {None} \cup {Some(b) : b \in Blocks(most)}, quotes_marker : BOOLEAN]
Replies == RepliesOf(MaxBlockLines)
ShortReplies == RepliesOf(MinBlockLines)

\* DBAgent.py:394-411  the results collected line by line
RECURSIVE line_results(_)
line_results(lines) ==
    IF lines = <<>> THEN <<>>
    ELSE IF Head(lines) = "comment" THEN line_results(Tail(lines))
    ELSE IF Head(lines) = "unparsable" THEN <<CouldNotParse>> \o line_results(Tail(lines))
    ELSE <<ResultOf>> \o line_results(Tail(lines))

\* DBAgent.py:384-414  _execute_code_block.  execute_function(function_name,
\* *args, **kwargs) is called outside every try: a keyword named function_name
\* or self makes the call itself raise TypeError.
_execute_code_block(code_block) ==
    IF \E i \in DOMAIN code_block : code_block[i] = "call_function_name"
    THEN [kind |-> "raise", results |-> <<>>]
    ELSE [kind |-> "return",
          results |-> IF line_results(code_block) = <<>> THEN <<NoneExecuted>>
                      ELSE line_results(code_block)]

\* DBAgent.py:362-382  process_code_blocks: the blocks the pattern finds are
\* executed; the results are put into the message where the text
\* ```python\n<code>\n``` occurs in it.
process_code_blocks(message) ==
    IF message.block = None \/ message.block[1].fence = "unclosed"
    THEN [kind |-> "return", message |-> message, results |-> None]
    ELSE LET result == _execute_code_block(message.block[1].lines)
         IN [kind |-> result.kind,
             message |-> message,
             results |-> IF result.kind = "return" /\ message.block[1].fence = "exact"
                          THEN Some(result.results) ELSE None]

\* "```python" in explorer_response
has_python_fence(response) == response.block # None

\* DBAgent.py:585  either marker text occurs in the processed response
has_marker(processed) ==
    \/ processed.message.quotes_marker
    \/ /\ processed.results # None
       /\ \E i \in DOMAIN processed.results[1] :
              processed.results[1][i] \in {NoneExecuted, CouldNotParse}

\* DBAgent.py:520-532  add_message; the content of a message is left out
Message(role, agent) == [role |-> role, agent |-> agent]
UserMessage == Message("user", None)
Explorer == "MongoDBExplorer"
Specialist == "MongoDBQuerySpecialist"

\* The listeners a caller may register: an object with on_response, one with
\* capture_response, a function, a function that raises when it is called,
\* and an object that has neither method and cannot be called.
ListenerKind == [ResponseCapture |-> "on_response",
                 Capture |-> "capture_response",
                 function |-> "callable",
                 failing |-> "callable",
                 object |-> "none"]
ListenerIds == DOMAIN ListenerKind
ListenerRaises(listener) == listener = "failing"

\* DBAgent.py:542-545  add_response_listener
add_response_listener(listener) == Append(listeners, listener)

AddResponseListener ==
    \E listener \in ListenerIds :
        /\ Len(listeners) < MaxListeners
        /\ listeners' = add_response_listener(listener)
        /\ last' = Returned("add_response_listener", <<listener>>, NoneVal, FALSE)
        /\ UNCHANGED <<messages, notified, mongoVars, sqlVars, notDbChat>>

\* A response as a listener is told of it: the agent and the place of the
\* message in the conversation.
Delivery(agent, at) == [agent |-> agent, at |-> at]

\* DBAgent.py:547-557  notify_listeners over the listeners `ls`, `told` being
\* what each listener has been called with so far.  A listener that raises
\* ends the loop: nothing catches the exception.
RECURSIVE notify_listeners(_, _, _)
notify_listeners(ls, told, response) ==
    IF ls = <<>> THEN [kind |-> "return", notified |-> told]
    ELSE IF ListenerKind[Head(ls)] = "none"
    THEN notify_listeners(Tail(ls), told, response)
    ELSE IF ListenerRaises(Head(ls))
    THEN [kind |-> "raise", notified |-> [told EXCEPT ![Head(ls)] = Append(@, response)]]
    ELSE notify_listeners(Tail(ls), [told EXCEPT ![Head(ls)] = Append(@, response)], response)

\* DBAgent.py:559-614  process_user_message, given the replies the two agents
\* would generate: the agents asked, the messages added, what the listeners
\* have been called with, and what the caller gets.
process_user_message(explorer_response, query_response) ==
    LET processed == process_code_blocks(explorer_response)
        processed_query == process_code_blocks(query_response)
        first == Message("assistant", Some(Explorer))
        second == Message("assistant", Some(Specialist))
        told_first == notify_listeners(listeners, notified,
                                       Delivery(Explorer, Len(messages) + 2))
        told_second == notify_listeners(listeners, told_first.notified,
                                        Delivery(Specialist, Len(messages) + 3))
    IN  IF has_python_fence(explorer_response) /\ processed.kind = "raise"
        THEN [kind |-> "raise", exception |-> "TypeError", asked |-> <<Explorer>>,
              added |-> <<UserMessage>>, responses |-> <<>>, notified |-> notified]
        ELSE IF told_first.kind = "raise"
        THEN [kind |-> "raise", exception |-> "Exception",
              asked |-> <<Explorer>>,
              added |-> <<UserMessage, first>>, responses |-> <<>>,
              notified |-> told_first.notified]
        ELSE IF ~has_python_fence(explorer_response) \/ ~has_marker(processed)
        THEN [kind |-> "return", exception |-> "", asked |-> <<Explorer>>,
              added |-> <<UserMessage, first>>, responses |-> <<first>>,
              notified |-> told_first.notified]
        ELSE IF processed_query.kind = "raise"
        THEN [kind |-> "raise", exception |-> "TypeError",
              asked |-> <<Explorer, Specialist>>,
              added |-> <<UserMessage, first>>, responses |-> <<>>,
              notified |-> told_first.notified]
        ELSE IF told_second.kind = "raise"
        THEN [kind |-> "raise", exception |-> "Exception",
              asked |-> <<Explorer, Specialist>>,
              added |-> <<UserMessage, first, second>>, responses |-> <<>>,
              notified |-> told_second.notified]
        ELSE [kind |-> "return", exception |-> "", asked |-> <<Explorer, Specialist>>,
              added |-> <<UserMessage, first, second>>, responses |-> <<first, second>>,
              notified |-> told_second.notified]

\* whether the specialist's reply is asked for at all
asks_specialist(explorer_response) ==
    /\ has_python_fence(explorer_response)
    /\ process_code_blocks(explorer_response).kind = "return"
    /\ has_marker(process_code_blocks(explorer_response))

\* process_user_message for the agents' replies drawn from `replies`.
ProcessUserMessageOf(replies) ==
    /\ Len(messages) + 3 <= MaxMessages
    /\ \E explorer_response \in replies :
       \E query_response \in IF asks_specialist(explorer_response)
                             THEN replies ELSE {[block |-> None, quotes_marker |-> FALSE]} :
           \E r \in {process_user_message(explorer_response, query_response)} :
              /\ messages' = messages \o r.added
              /\ notified' = r.notified
              /\ last' = Outcome("process_user_message", <<explorer_response>>, r.kind,
                                 IF r.kind = "return" THEN ListVal(r.responses)
                                 ELSE StrVal(r.exception),
                                 FALSE, r.asked)
    /\ UNCHANGED <<listeners, mongoVars, sqlVars, notDbChat>>

ProcessUserMessage == ProcessUserMessageOf(Replies)

\* The same with code blocks of MinBlockLines lines at most.
ProcessShortUserMessage == ProcessUserMessageOf(ShortReplies)

\* ------------------------------------------------------- the specifications
NoCall == Returned("none", <<>>, NoneVal, FALSE)
NoRun == [ticker |-> FALSE, input |-> FALSE, skip_analysis |-> FALSE,
          input_exists |-> FALSE, load_data |-> FALSE, analysis |-> "ok",
          generate_report |-> FALSE]

MongoInit ==
    /\ collections = {}
    /\ docs = [c \in CollNames |-> 0]
    /\ session = None
    /\ open_sessions = 0
    /\ exploration_notes = EmptyNotes
    /\ handler_notes = None

SqlInit ==
    /\ tables = {}
    /\ rows = [t \in TableNames |-> 0]
    /\ sql_notes = EmptySqlNotes

DateInit ==
    /\ now = FirstDay
    /\ trading_day = None

CliInit ==
    /\ cli_args = NoRun
    /\ cli = [pc |-> "idle", exit_code |-> None]

ExecInit ==
    /\ code = <<>>
    /\ executed = None
    /\ exec_result = None

CacheInit ==
    /\ csv_cache = [f \in {} |-> "csvA"]
    /\ stock_cache = [t \in {} |-> [value |-> "None", stored_at |-> 0]]
    /\ clock = 0
    /\ chunks = [f \in FileIds |-> <<>>]
    /\ uploads = [f \in FileIds |-> None]

ChatInit ==
    /\ messages = <<>>
    /\ notified = [l \in ListenerIds |-> <<>>]
    /\ listeners = <<>>

Init ==
    /\ MongoInit /\ SqlInit /\ DateInit /\ CliInit /\ ExecInit /\ CacheInit /\ ChatInit
    /\ last = NoCall

\* The reads and writes of MongoDBClient.
NextClient ==
    \/ ListCollections
    \/ FindMany
    \/ CountDocuments
    \/ FindById
    \/ UpdateById
    \/ DeleteById
    \/ InsertOne
    \/ CreateCollection
    \/ DropCollection

SpecClient == Init /\ [][NextClient]_vars

\* The transactions of MongoDBClient, with writes made while they are open.
NextTransaction ==
    \/ StartTransaction
    \/ CommitTransaction
    \/ AbortTransaction
    \/ Close
    \/ InsertOne
    \/ DeleteById

SpecTransaction == Init /\ [][NextTransaction]_vars

\* MongoDBConversation, one user message after the other.
NextConversation ==
    \/ ProcessUserMessage

SpecConversation == Init /\ [][NextConversation]_vars

\* MongoDBConversation with the listeners registered on it.
NextListeners ==
    \/ AddResponseListener
    \/ ProcessShortUserMessage

SpecListeners == Init /\ [][NextListeners]_vars

\* MongoDBExplorer over a database that changes under it.
NextExplorer ==
    \/ InsertOne
    \/ DropCollection
    \/ ExploreDatabase
    \/ ExecuteQuery
    \/ ExecuteAggregation
    \/ GenerateNotes

SpecExplorer == Init /\ [][NextExplorer]_vars

\* The agent's function handler over the same database.
NextHandler ==
    \/ InsertOne
    \/ DropCollection
    \/ HandlerExploreMongodb
    \/ HandlerGetExplorationNotes
    \/ HandlerExecuteQuery

SpecHandler == Init /\ [][NextHandler]_vars

\* SQLDatabaseExplorer over a database that changes under it.
NextSql ==
    \/ SqlCreateTable
    \/ SqlInsertRow
    \/ SqlDropTable
    \/ SqlExploreDatabase
    \/ SqlExecuteQuery
    \/ SqlExecuteAggregation
    \/ SqlGenerateNotes

SpecSql == Init /\ [][NextSql]_vars

\* The three execute_query operations, against every database of the bounds.
InitQuery ==
    /\ collections \in SUBSET CollNames
    /\ docs \in [CollNames -> 0..MaxDocs]
    /\ \A c \in CollNames : docs[c] <= Capacity(c) /\ (c \notin collections => docs[c] = 0)
    /\ session = None
    /\ open_sessions = 0
    /\ exploration_notes = EmptyNotes
    /\ handler_notes = None
    /\ tables \in SUBSET TableNames
    /\ rows \in [TableNames -> 0..MaxDocs]
    /\ \A t \in TableNames : rows[t] <= Capacity(t) /\ (t \notin tables => rows[t] = 0)
    /\ sql_notes = EmptySqlNotes
    /\ DateInit /\ CliInit /\ ExecInit /\ CacheInit /\ ChatInit
    /\ last = NoCall

NextQuery ==
    \/ ExecuteQuery
    \/ HandlerExecuteQuery
    \/ SqlExecuteQuery

SpecQuery == InitQuery /\ [][NextQuery]_vars

\* The analyzer's calendar.
NextTrading ==
    \/ GetLatestTradingDay
    \/ NextDay

SpecTrading == Init /\ [][NextTrading]_vars

\* Runs of the report CLI.
NextCli ==
    \/ CliStart
    \/ CliMain

SpecCli == Init /\ [][NextCli]_vars

\* The code executor.
NextExec == ExecuteCode

SpecExec == Init /\ [][NextExec]_vars

\* The caches.
NextCache ==
    \/ ProcessCsv
    \/ GetDataframe
    \/ GetStockData
    \/ Tick

SpecCache == Init /\ [][NextCache]_vars
\* Schema inference and relationship inference over any sample: one call with
\* any arguments.
InitSchema ==
    /\ MongoInit /\ SqlInit /\ DateInit /\ CliInit /\ ExecInit /\ CacheInit /\ ChatInit
    /\ last \in {Called("_infer_schema", <<documents>>) : documents \in Samples}
          \cup {Called("_identify_relationships", <<collections_info>>) :
                    collections_info \in CollectionsInfos}
          \cup {Called("sql._explore_table", <<t>>) : t \in SqlTables}

NextSchema ==
    \/ InferSchema
    \/ IdentifyRelationships
    \/ SqlTableSchema

SpecSchema == InitSchema /\ [][NextSchema]_vars
\* The TalkToCSV backend: uploads and requests for an uploaded file.
NextUpload ==
    \/ UploadChunk
    \/ UploadFile
    \/ GetFileInfo
    \/ GetFileAnalysis

SpecUpload == Init /\ [][NextUpload]_vars

\* The TalkToCSV backend: requests and queries on uploaded files.
NextQueryCsv ==
    \/ ProcessCsv
    \/ GetFileInfo
    \/ GetFileAnalysis
    \/ QueryCsv

SpecQueryCsv == Init /\ [][NextQueryCsv]_vars

\* Everything together.
Next ==
    \/ NextClient
    \/ NextExplorer
    \/ NextHandler
    \/ NextSql
    \/ NextTrading
    \/ NextCli
    \/ NextExec
    \/ NextCache
    \/ NextSchema
    \/ NextTransaction
    \/ NextConversation
    \/ NextListeners
    \/ NextUpload
    \/ NextQueryCsv

Spec == Init /\ [][Next]_vars

\* ------------------------------------------------------------------- claims
QueryOps == {"mongo.execute_query", "handler.execute_query", "sql.execute_query"}

IsEmptyResult(v) ==
    \/ v.type = "DataFrame" /\ v.rows = <<>>
    \/ v.type = "str" /\ v = StrVal("Query returned no results.")

IsErrorMessage(v) ==
    \/ v.type = "DataFrame" /\ "columns" \in DOMAIN v
    \/ v.type = "str" /\ v \in {StrVal("Error: Collection does not exist."),
                                StrVal("Error executing MongoDB query")}

\* A SQL execute_query whose query_params carry a complete statement.
RawSql(l) == l.op = "sql.execute_query" /\ l.args[2].query # None

\* C1 as stated: execute_query with the name of a collection or table that does
\* not exist returns an empty result or a not-found / error message and never
\* raises, in MongoDBExplorer, SQLDatabaseExplorer and the agent's wrapper.
C1_NonexistentGivesEmptyOrMessage ==
    (last.op \in QueryOps /\ last.seen = {}) =>
        /\ last.kind = "return"
        /\ IsEmptyResult(last.val) \/ IsErrorMessage(last.val)

\* C1 amended: the same, except that SQLDatabaseExplorer.execute_query ignores
\* table_name when query_params carries a complete "query" and then answers
\* that statement; no execute_query raises in either case.
C1_NonexistentGivesEmptyOrMessageUnlessRawSql ==
    (last.op \in QueryOps /\ last.seen = {}) =>
        /\ last.kind = "return"
        /\ RawSql(last) \/ IsEmptyResult(last.val) \/ IsErrorMessage(last.val)

\* C1 witness: the MongoDB explorer was asked for a collection that does not
\* exist, in a database that holds documents elsewhere, and answered with an
\* empty frame.
C1_Witness ==
    /\ last.op = "mongo.execute_query"
    /\ last.seen = {}
    /\ \E c \in collections : docs[c] > 0
    /\ last.kind = "return"
    /\ IsEmptyResult(last.val)

\* A result that stands for a converted failure: an empty frame, a string, the
\* error frame, or (explore_database) the structure description it returns.
FailureConverted(v) ==
    \/ v.type = "str"
    \/ v.type = "dict"
    \/ v.type = "DataFrame" /\ (v.rows = <<>> \/ "columns" \in DOMAIN v)

\* C2: when the driver fails during a DatabaseExplorer operation, the operation
\* returns an empty tabular result or a string describing the error, and the
\* driver's exception does not reach the caller.
C2_DriverFailureIsConverted ==
    (last.op \in MongoExplorerOps /\ last.driver_failed) =>
        /\ last.kind = "return"
        /\ FailureConverted(last.val)

\* C3: get_latest_trading_day returns a date that is a Monday to Friday and is
\* not later than the current date.
C3_TradingDayIsWeekdayNotAfterToday ==
    trading_day # None =>
        /\ weekday(ymd2ord(trading_day[1])) \in 0..4
        /\ ymd2ord(trading_day[1]) <= now

\* C4: the sample taken from a collection during exploration holds at most 5
\* documents, whatever the collection's size and whatever the count step gave.
C4_SampleAtMostFive ==
    \A c \in DOMAIN exploration_notes.collections :
        Len(exploration_notes.collections[c].sample_documents) <= SampleLimit

\* What the claims call unsafe: an import of a module outside allowed_modules,
\* or one of the listed patterns.
ImportedModules(l) ==
    IF l.kind = "import" THEN {l.module[1]}
    ELSE IF l.kind = "importfrom"
    THEN (IF l.module # None THEN {l.module[1]} ELSE {<<n>> : n \in l.names})
    ELSE {}

IsUnsafe(c) ==
    \E i \in 1..Len(c) :
        \/ c[i].pattern
        \/ \E m \in ImportedModules(c[i]) : m \notin allowed_modules

\* C5: code that holds an import of a module outside the allowed set, or one of
\* the unsafe patterns, is never handed to exec(); execute_code answers it with
\* status "error" and message "Code contains unsafe operations".
C5_UnsafeCodeIsRejected ==
    (exec_result # None /\ IsUnsafe(code)) =>
        /\ executed = None
        /\ exec_result[1].status = "error"
        /\ exec_result[1].message = "Code contains unsafe operations"

\* C6: the CLI exits with 1 when the file given with -i is missing or when the
\* analysis fails, and with 0 in every other run, for every combination of -i
\* and --skip-analysis.  Stated for the runs in which loading the file and
\* generating the report, where they are reached, succeed.
C6_ExitCodes ==
    (cli.pc = "exited" /\ cli_args.ticker /\ cli_args.load_data /\ cli_args.generate_report) =>
        cli.exit_code =
            Some(IF \/ cli_args.input /\ ~cli_args.input_exists
                    \/ RunsAnalysis(cli_args) /\ cli_args.analysis # "ok"
                 THEN ExitError ELSE ExitOk)

\* C7: no MongoDBClient operation raises: each logs the failure and returns
\* None, an empty structure or an error value, also for a malformed id.
C7_ClientNeverRaises ==
    last.op \in ClientOps => last.kind = "return"

\* C8: after every explore_database() call the snapshot the explorer holds
\* lists exactly the collections found in that call.
C8_SnapshotIsOfThisCall ==
    last.op = "explore_database" =>
        DOMAIN exploration_notes.collections = last.seen

\* C9 as stated: an entry once stored in csv_cache or in the stock-data cache
\* is never removed or expired and stays retrievable.
C9_EntriesStayRetrievable ==
    [][/\ DOMAIN csv_cache \subseteq DOMAIN csv_cache'
       /\ \A t \in Tickers : cache_hit(t) => cache_hit(t)']_vars

\* C9 amended: a csv_cache key once stored is never removed; a stock-data entry
\* stays retrievable, unchanged, until TTL seconds after it was stored.
C9_EntriesKeptUntilTtl ==
    [][/\ DOMAIN csv_cache \subseteq DOMAIN csv_cache'
       /\ \A t \in Tickers :
              (cache_hit(t) /\ clock' < stock_cache[t].stored_at + TTL) =>
                  /\ t \in DOMAIN stock_cache'
                  /\ stock_cache'[t] = stock_cache[t]
                  /\ cache_hit(t)']_vars

\* C9 witness: both caches hold an entry, and the stock-data entry still
\* answers although time has passed since it was stored.
C9_Witness ==
    /\ DOMAIN csv_cache = FileIds
    /\ \E t \in DOMAIN stock_cache : cache_hit(t) /\ clock > stock_cache[t].stored_at

IsNoFilter(query) == query = None \/ query = Some(EmptyFilter)

\* C10 as stated: count_documents with no filter or an empty filter returns the
\* number N of documents the collection holds.
C10_CountReturnsN ==
    (last.op = "count_documents" /\ IsNoFilter(last.args[2])) =>
        last.val.n = last.seen

\* C10 amended: it returns N when the driver's count succeeds, and 0 when the
\* driver raises a PyMongoError.
C10_CountReturnsNUnlessDriverFails ==
    (last.op = "count_documents" /\ IsNoFilter(last.args[2])) =>
        last.val.n = IF last.driver_failed THEN 0 ELSE last.seen

\* C10 witness: a count with no filter over a collection of more than
\* SampleLimit documents, some of them filtered out by other filters.
C10_Witness ==
    /\ last.op = "count_documents"
    /\ last.args[2] = None
    /\ ~last.driver_failed
    /\ last.seen > SampleLimit
    /\ last.val.n = last.seen

\* The name rule: the field is named xId and the target is a different
\* collection named xs.
NameRule(r) ==
    /\ EndsWithId(r.from_field)
    /\ r.to_collection # r.from_collection
    /\ Chars[r.to_collection] = potential_collection(r.from_field)

\* The _id rule: the field is _id and the target is any other collection.
IdRule(r) ==
    /\ r.from_field = "_id"
    /\ r.to_collection # r.from_collection
    /\ r.confidence = "medium"

\* The array rule: the field holds a list in some sampled document and is
\* named exactly as a collection of the snapshot, the source collection included.
ArrayRule(r, collections_info) ==
    /\ r.type = Some("array")
    /\ r.to_collection = r.from_field
    /\ r.to_collection \in DOMAIN collections_info
    /\ "list" \in Range(collections_info[r.from_collection].schema[r.from_field].types)

IdentifyReturned == last.op = "_identify_relationships" /\ last.kind = "return"

\* C11 as stated: a relationship from field f of collection A to collection B
\* is reported only by the name rule (f is xId, B is another collection named
\* xs), and for no other pair of field and collection.
C11_OnlyNameRule ==
    IdentifyReturned => \A r \in last.val.items : NameRule(r)

\* C11 amended: every reported relationship follows the name rule (confidence
\* high), the _id rule (confidence medium) or the array rule (confidence
\* medium, type array), and every pair the name rule or the _id rule links is
\* reported.
C11_NameIdOrArrayRule ==
    IdentifyReturned =>
        /\ \A r \in last.val.items :
               /\ r.from_field \in DOMAIN last.args[1][r.from_collection].schema
               /\ \/ NameRule(r) /\ r.confidence = "high" /\ r.type = None
                  \/ IdRule(r) /\ r.type = None
                  \/ ArrayRule(r, last.args[1]) /\ r.confidence = "medium"
        /\ \A a \in DOMAIN last.args[1], b \in DOMAIN last.args[1] :
               \A f \in DOMAIN last.args[1][a].schema :
                   (a # b /\ (f = "_id" \/ (EndsWithId(f) /\ Chars[b] = potential_collection(f)))) =>
                       \E r \in last.val.items :
                           /\ r.from_collection = a
                           /\ r.from_field = f
                           /\ r.to_collection = b

\* C11 witness: one inference reported a link by the name rule and a link by
\* the array rule.
C11_Witness ==
    /\ IdentifyReturned
    /\ \E r \in last.val.items : NameRule(r) /\ r.from_field = "userId"
    /\ \E r \in last.val.items : ArrayRule(r, last.args[1])

\* The types a field holds across the sampled documents.
Observed(documents, field) ==
    {documents[i][field] : i \in {j \in DOMAIN documents : field \in DOMAIN documents[j]}}

\* The storage classes a column holds across the sampled rows.
ObservedSql(sample_rows, column) ==
    {sample_rows[i][column] : i \in DOMAIN sample_rows}

\* For MongoDB, the types list of every field is the set of the types observed
\* in the sample, each once.
MongoTypesAreObserved ==
    (last.op = "_infer_schema" /\ last.kind = "return") =>
        /\ DOMAIN last.val.schema = UNION {DOMAIN last.args[1][i] : i \in DOMAIN last.args[1]}
        /\ \A f \in DOMAIN last.val.schema :
               /\ Range(last.val.schema[f].types) = Observed(last.args[1], f)
               /\ Len(last.val.schema[f].types) = Cardinality(Observed(last.args[1], f))

\* C12 as stated: for MongoDB and for SQL, the type entry of a field is exactly
\* the set of the value types observed for it across the sample.
C12_TypesAreObserved ==
    /\ MongoTypesAreObserved
    /\ (last.op = "sql._explore_table" /\ last.kind = "return") =>
           \A column \in DOMAIN last.val.schema :
               {last.val.schema[column].type} = ObservedSql(last.args[1].sample_rows, column)

\* C12 amended: for MongoDB the types list of a field is exactly the set of
\* the types observed across the sample, each once; for SQL the type entry is
\* the declared type of the column, whatever the sampled rows hold.
C12_TypesAreObservedOrDeclared ==
    /\ MongoTypesAreObserved
    /\ (last.op = "sql._explore_table" /\ last.kind = "return") =>
           /\ DOMAIN last.val.schema = DOMAIN last.args[1].columns
           /\ \A column \in DOMAIN last.val.schema :
                  last.val.schema[column].type = last.args[1].columns[column]

\* C12 witness: a sample of two documents in which one field holds the same
\* type twice and another holds two types.
C12_Witness ==
    /\ last.op = "_infer_schema" /\ last.kind = "return"
    /\ Len(last.args[1]) = 2
    /\ Len(last.val.schema["_id"].types) = 1
    /\ \E f \in DOMAIN last.val.schema : Len(last.val.schema[f].types) = 2

\* An upload request that makes the backend read the file: a single-file
\* upload, or the last chunk of a chunked one.
UploadCompleted ==
    \/ last.op = "upload_file"
    \/ last.op = "upload_chunk" /\ last.args[3]

\* C13: the backend reassembles a chunked file only once all of its chunks
\* 0..n have been received, in whatever order the chunk requests arrive.
C13_ReassembledOnlyWhenComplete ==
    (last.op = "upload_chunk" /\ last.args[3]) =>
        /\ last.seen = 0..last.args[2]
        /\ uploads[last.args[1]] # None

\* C14: a request for file info, for file analysis or a query that names a
\* file_id not in the cache is answered with HTTP status 404.
C14_UnknownFileIs404 ==
    (/\ last.op \in {"get_file_info", "get_file_analysis", "query_csv"}
     /\ last.args[1] \notin last.seen) =>
        last.val.status_code = 404

\* C15: an upload that returns status "error" leaves no DataFrame in csv_cache
\* under its file_id, and one that returns "success" leaves one.
C15_CachedIffUploadSucceeded ==
    UploadCompleted =>
        (last.args[1] \in DOMAIN csv_cache <=> last.val.body.status = "success")

\* C16: a query, whether its code succeeds, fails or is rejected, never
\* changes the DataFrame cached for any file.
C16_QueryLeavesCacheUnchanged ==
    [][last'.op = "query_csv" => csv_cache' = csv_cache]_vars

\* C16 witness: a query whose code changes df in place was executed, and the
\* cache still holds the uploaded data.
C16_Witness ==
    /\ last.op = "query_csv"
    /\ last.val.status_code = 200
    /\ executed # None
    /\ Mutates(executed[1])
    /\ csv_cache[last.args[1]] \in Contents

\* C17: whenever execute_code returns status "error", its result field carries
\* the processed df.head().
C17_ErrorResultCarriesHead ==
    (exec_result # None /\ exec_result[1].status = "error") =>
        exec_result[1].result = "df.head()"

\* C18: the writes made between start_transaction and abort_transaction belong
\* to the transaction: after abort_transaction the database holds what it held
\* when the transaction started.
C18_AbortUndoesWrites ==
    last.op = "abort_transaction" =>
        \A s \in last.seen : s.in_transaction => docs = s.snapshot

\* C19: the client never holds more than one un-ended session, an un-ended
\* session is always the one self.session refers to (each call of
\* start_transaction, commit_transaction, abort_transaction and close has ended
\* the session opened before it), no session is open after close, and
\* self.session is None after commit_transaction and abort_transaction,
\* whether they return or raise.
C19_SessionsAreEnded ==
    /\ open_sessions <= 1
    /\ open_sessions = Unended(session)
    /\ last.op \in {"commit_transaction", "abort_transaction"} => session = None
    /\ last.op = "close" => open_sessions = 0

\* C19 witness: commit_transaction raised while a transaction was open on the
\* session it held, and the session is ended and forgotten.
C19_Witness ==
    /\ last.op = "commit_transaction"
    /\ last.kind = "raise"
    /\ \E s \in last.seen : s.in_transaction /\ ~s.ended
    /\ session = None
    /\ open_sessions = 0

\* C19 witness of the restart: start_transaction was called while a session
\* was open, and only the new session is left un-ended.
C19_RestartEndsOldSession ==
    /\ last.op = "start_transaction"
    /\ \E s \in last.seen : ~s.ended
    /\ open_sessions = 1

\* The explorer is asked first; the specialist is asked only after it and
\* only if the explorer's processed reply has one of the two marker texts.
AskedInOrder(call) ==
    /\ Head(call.seen) = Explorer
    /\ (\E i \in DOMAIN call.seen : call.seen[i] = Specialist) =>
           /\ call.seen = <<Explorer, Specialist>>
           /\ process_code_blocks(call.args[1]).kind = "return"
           /\ has_marker(process_code_blocks(call.args[1]))

\* One or two responses are returned, the explorer's first.
ReturnsResponses(call) ==
    /\ call.kind = "return"
    /\ Len(call.val.items) \in {1, 2}
    /\ \A i \in DOMAIN call.val.items :
           call.val.items[i] = Message("assistant", Some(<<Explorer, Specialist>>[i]))

\* C20: for each user message process_user_message asks the explorer first
\* and the query specialist only afterwards and only if the explorer's
\* processed reply reports that no function was executed or that a call could
\* not be parsed; it returns one or two responses in that order, and the
\* conversation grows by the user message and exactly those responses.
C20_ExplorerThenSpecialist ==
    [][last'.op = "process_user_message" =>
          /\ AskedInOrder(last')
          /\ ReturnsResponses(last')
          /\ messages' = messages \o <<UserMessage>> \o last'.val.items]_vars

\* The assistant messages that a step appended to the conversation, as the
\* listeners are to be told of them.
RECURSIVE Appended(_, _)
Appended(conversation, from) ==
    IF from > Len(conversation) THEN <<>>
    ELSE IF conversation[from].role = "assistant"
    THEN <<Delivery(conversation[from].agent[1], from)>> \o Appended(conversation, from + 1)
    ELSE Appended(conversation, from + 1)

\* C21: each assistant response appended to the conversation is delivered to
\* every registered listener exactly once, after it was appended and in the
\* order the responses were produced, and none is appended without being
\* delivered: a call of process_user_message adds to what each registered
\* listener was told exactly the responses it appended, in their order.
C21_EachResponseDeliveredOnce ==
    [][last'.op = "process_user_message" =>
          \A i \in DOMAIN listeners :
              notified'[listeners[i]] =
                  notified[listeners[i]] \o Appended(messages', Len(messages) + 1)]_vars

====
